---- MODULE Spec2Model ----
(***************************************************************************)
(* cargo-pgo: the build-invocation layer (src/build.rs), the helpers of    *)
(* src/lib.rs and the BOLT instrumentation pipeline                        *)
(* (src/bolt/instrument.rs), modelled as state machines.                   *)
(*                                                                         *)
(*   SpecArgs : parse_cargo_args and cargo_command over every bounded user *)
(*              argument list.                                             *)
(*   SpecPaths: instrument_binary over executable paths and disk states.   *)
(*   SpecEnv  : cargo_command_with_flags over parent environments.         *)
(*   Spec     : runs of "cargo pgo bolt instrument" (main -> run ->        *)
(*              bolt_instrument) against a profile directory on disk.      *)
(***************************************************************************)
EXTENDS Naturals, Sequences, FiniteSets

VARIABLES
    apc,          \* position of the argument-filter harness (SpecArgs)
    cargo_args,   \* the user's argument list (BoltInstrumentArgs.cargo_args)
    parsed,       \* CargoArgs returned by parse_cargo_args, plus the warnings logged
    command,      \* the argument list of the cargo Command, once built
    cmd_result,   \* outcome of cargo_command: "none", "built", "no_target"
    ipc,          \* position of the instrument_binary harness (SpecPaths)
    exe,          \* the executable path handed to instrument_binary (SpecPaths)
    bolt_dir,     \* the profile directory path (get_bolt_directory)
    disk,         \* the profile directory on disk: [exists, entries]
    bolt_calls,   \* the BOLT processes run so far, in order, with their arguments
    result,       \* outcome of the function under way: [kind, detail]
    pc,           \* position of the "cargo pgo bolt instrument" process (Spec)
    runs,         \* how many times the tool has been started
    stream,       \* the records of cargo's captured stdout
    next,         \* index of the next record Message::parse_stream yields
    trace,        \* what the current run did, in order: [op, arg]
    exit_code,    \* exit code of the process, once it has exited (0 until then)
    binaries,     \* the instrumented binaries on disk (paths, as strings)
    epc,          \* position of the cargo_command_with_flags harness (SpecEnv)
    env,          \* the environment of the cargo-pgo process: name -> [set, value]
    flags,        \* the extra compiler flags given to cargo_command_with_flags
    child_env     \* the environment the cargo child was given: [spawned, vars]

avars == <<apc, cargo_args, parsed, command, cmd_result>>
ivars == <<ipc, exe, bolt_dir, disk, bolt_calls, result>>
pvars == <<pc, runs, stream, next, trace, exit_code>>
evars == <<epc, env, flags, child_env>>
vars == <<avars, ivars, pvars, binaries, evars>>

(***************************************************************************)
(* Bounds                                                                  *)
(***************************************************************************)
MaxLen == 4          \* longest user argument list explored
MaxEvents == 2       \* longest captured record stream explored
MaxRuns == 2         \* how many times the tool is started on the same workspace

(***************************************************************************)
(* Argument tokens                                                         *)
(***************************************************************************)
RELEASE        == "--release"
MESSAGE_FORMAT == "--message-format"
TARGET         == "--target"
TARGET_EQ      == "--target=x64"      \* cargo's one-token spelling of --target x64

Tokens == {RELEASE, MESSAGE_FORMAT, TARGET, TARGET_EQ, "x64", "json", "foo", "bar"}

ArgLists == UNION {[1..n -> Tokens] : n \in 0..MaxLen}

WARN_RELEASE        == "Do not pass --release manually"
WARN_MESSAGE_FORMAT == "Do not pass --message-format manually"

\* CargoArgs::default(), with the log::warn! lines emitted so far
CargoArgsDefault == [filtered |-> <<>>, contains_target |-> FALSE, warnings |-> <<>>]

(***************************************************************************)
(* parse_cargo_args (src/build.rs:91-114).  i is the iterator position:  *)
(* iterator.next() yields cargo_args[i] and advances; the extra            *)
(* iterator.next() of the --message-format arm advances once more (and     *)
(* yields None at the end of the list, which is ignored).                  *)
(***************************************************************************)
RECURSIVE parse_loop(_, _, _)
parse_loop(cargo, i, args) ==
    IF i > Len(cargo) THEN args
    ELSE LET arg == cargo[i] IN
         CASE arg = RELEASE ->
                parse_loop(cargo, i + 1,
                    [args EXCEPT !.warnings = Append(@, WARN_RELEASE)])
           [] arg = MESSAGE_FORMAT ->
                parse_loop(cargo, i + 2,
                    [args EXCEPT !.warnings = Append(@, WARN_MESSAGE_FORMAT)])
           [] arg = TARGET ->
                parse_loop(cargo, i + 1,
                    [args EXCEPT !.contains_target = TRUE,
                                 !.filtered = Append(@, arg)])
           [] OTHER ->
                parse_loop(cargo, i + 1,
                    [args EXCEPT !.filtered = Append(@, arg)])

\* Faulty variants of the filter, used to show that the properties below depend on it.
\*   "unflagged"     : the --target arm forgets contains_target = true
\*   "release_kept"  : the --release arm warns but still pushes the token
\*   "release_skips" : the --release arm also swallows the following token
\*   "blind"         : every later token equal to a dropped --message-format value
\*                     is dropped too (position-blind filtering)
RECURSIVE parse_loop_faulty(_, _, _, _, _)
parse_loop_faulty(cargo, i, args, fault, dropped) ==
    IF i > Len(cargo) THEN args
    ELSE LET arg == cargo[i] IN
         CASE arg = RELEASE ->
                parse_loop_faulty(cargo,
                    IF fault = "release_skips" THEN i + 2 ELSE i + 1,
                    [args EXCEPT !.warnings = Append(@, WARN_RELEASE),
                                 !.filtered = IF fault = "release_kept"
                                              THEN Append(@, arg) ELSE @],
                    fault, dropped)
           [] arg = MESSAGE_FORMAT ->
                parse_loop_faulty(cargo, i + 2,
                    [args EXCEPT !.warnings = Append(@, WARN_MESSAGE_FORMAT)],
                    fault,
                    IF i + 1 <= Len(cargo) THEN dropped \cup {cargo[i + 1]} ELSE dropped)
           [] arg = TARGET ->
                parse_loop_faulty(cargo, i + 1,
                    [args EXCEPT !.contains_target = (fault # "unflagged"),
                                 !.filtered = Append(@, arg)],
                    fault, dropped)
           [] OTHER ->
                parse_loop_faulty(cargo, i + 1,
                    [args EXCEPT !.filtered = IF fault = "blind" /\ arg \in dropped
                                              THEN @ ELSE Append(@, arg)],
                    fault, dropped)

parse_cargo_args_unflagged(cargo) ==
    parse_loop_faulty(cargo, 1, CargoArgsDefault, "unflagged", {})
parse_cargo_args_release_kept(cargo) ==
    parse_loop_faulty(cargo, 1, CargoArgsDefault, "release_kept", {})
parse_cargo_args_release_skips(cargo) ==
    parse_loop_faulty(cargo, 1, CargoArgsDefault, "release_skips", {})
parse_cargo_args_blind(cargo) ==
    parse_loop_faulty(cargo, 1, CargoArgsDefault, "blind", {})

parse_cargo_args(cargo) == parse_loop(cargo, 1, CargoArgsDefault)

(***************************************************************************)
(* get_default_target (src/lib.rs:28-42) over the outcome of "rustc -vV".  *)
(* run_command (src/lib.rs:18-25) fails when the process cannot be spawned *)
(* or its stdout is not UTF-8; it does not look at the exit status.  A     *)
(* line of the output is a sequence of chunks; a line starts with          *)
(* HOST_FIELD when its first chunk is HOST_FIELD, and the rest of the line *)
(* is what follows that chunk.                                              *)
(***************************************************************************)
HOST_FIELD == "host: "
HostTriple == "x86_64-unknown-linux-gnu"

RustcOutcomes ==
    { [spawned |-> FALSE, utf8 |-> TRUE, lines |-> <<>>],
      [spawned |-> TRUE, utf8 |-> FALSE, lines |-> <<>>],
      [spawned |-> TRUE, utf8 |-> TRUE,
       lines |-> << <<"rustc 1.60.0">>, <<"release: 1.60.0">> >>],
      [spawned |-> TRUE, utf8 |-> TRUE,
       lines |-> << <<"rustc 1.60.0">>, <<HOST_FIELD, HostTriple>>,
                    <<"release: 1.60.0">> >>] }

starts_with(l, prefix) == Len(l) >= 1 /\ l[1] = prefix

\* .lines().find(|l| l.starts_with(HOST_FIELD)): index of the first such line, 0 if none
RECURSIVE find_host(_, _)
find_host(lines, i) ==
    IF i > Len(lines) THEN 0
    ELSE IF starts_with(lines[i], HOST_FIELD) THEN i
    ELSE find_host(lines, i + 1)

get_default_target(rustc) ==
    IF ~rustc.spawned \/ ~rustc.utf8
    THEN [ok |-> FALSE, host |-> "", error |-> "rustc could not be run"]
    ELSE LET k == find_host(rustc.lines, 1) IN
         IF k = 0
         THEN [ok |-> FALSE, host |-> "",
               error |-> "Failed to parse target from rustc output."]
         ELSE [ok |-> TRUE, host |-> rustc.lines[k][2], error |-> ""]

(***************************************************************************)
(* cargo_command (src/build.rs:54-89): the argument list handed to the     *)
(* cargo child process.  The result carries the CargoArgs computed at line *)
(* 59 so that the warnings logged there stay observable.                   *)
(***************************************************************************)
BUILD == "build"                      \* CargoCommand::Build.to_str()
JSON_FORMAT == "json-diagnostic-rendered-ansi"

cargo_command(cargo_cmd, cargo, rustc) ==
    LET parsed_args == parse_cargo_args(cargo)
        head == <<cargo_cmd, RELEASE, MESSAGE_FORMAT, JSON_FORMAT>>
        default_target == get_default_target(rustc)
    IN  IF ~parsed_args.contains_target /\ ~default_target.ok
        THEN [ok |-> FALSE, args |-> <<>>, parsed |-> parsed_args,
              error |-> "Unable to find default target triple for your platform"]
        ELSE [ok |-> TRUE,
              args |-> (IF parsed_args.contains_target
                        THEN head
                        ELSE head \o <<TARGET, default_target.host>>)
                       \o parsed_args.filtered,
              parsed |-> parsed_args,
              error |-> ""]

(***************************************************************************)
(* Paths.  A path is a sequence of components and a component a sequence   *)
(* of chunks: "/" (the root component), "." and plain text without dots or *)
(* slashes.  A string is the sequence of its chunks, so that               *)
(* "/out/myapp.exe" is <<"/", "out", "/", "myapp", ".", "exe">>.           *)
(***************************************************************************)
ROOT == <<"/">>
DOT == "."
SLASH == "/"

\* Path::as_str / to_str / Display: the components joined by "/"
RECURSIVE as_str(_)
as_str(p) ==
    IF p = <<>> THEN <<>>
    ELSE IF Len(p) = 1 THEN p[1]
    ELSE IF p[1] = ROOT THEN ROOT \o as_str(Tail(p))
    ELSE p[1] \o <<SLASH>> \o as_str(Tail(p))

\* Path::file_name of a path that names a file: its last component
file_name(p) == p[Len(p)]

\* position of the last "." chunk of a file name, 0 when it has none
RECURSIVE last_dot(_, _)
last_dot(name, i) ==
    IF i = 0 THEN 0
    ELSE IF name[i] = DOT THEN i
    ELSE last_dot(name, i - 1)

\* faulty variants: the extension is kept / the name is cut at its first dot
file_stem_keeps_extension(p) == file_name(p)
file_stem_first_dot(p) ==
    LET name == file_name(p)
        first == CHOOSE i \in 1..(Len(name) + 1) :
                    /\ i = Len(name) + 1 \/ name[i] = DOT
                    /\ \A j \in 1..(i - 1) : name[j] # DOT
    IN  IF first <= 1 THEN name ELSE SubSeq(name, 1, first - 1)

\* Path::file_stem: the file name up to its last ".", the whole name when it has
\* no "." or only a leading one
file_stem(p) ==
    LET name == file_name(p)
        k == last_dot(name, Len(name))
    IN  IF k <= 1 THEN name ELSE SubSeq(name, 1, k - 1)

\* Path::parent of a path that names a file: the path without its last component
parent(p) == SubSeq(p, 1, Len(p) - 1)

\* Path::join with a relative one-component path
join(p, name) == Append(p, name)

BOLT_SUFFIX == "-bolt-instrumented"
PROFILE == "profile"

(***************************************************************************)
(* The profile directory on disk: whether it exists and the names of its   *)
(* entries (one subdirectory per base name, and whatever files earlier     *)
(* workloads left).                                                        *)
(***************************************************************************)
Absent == [exists |-> FALSE, entries |-> {}]

\* std::fs::create_dir_all(profile_dir.join(name)): creates the directory and
\* its missing parents; an existing directory is left as it is
\* faulty variant: the new subdirectory replaces what the directory held
create_dir_all_sub_alone(d, name) == [exists |-> TRUE, entries |-> {name}]

create_dir_all_sub(d, name) == [exists |-> TRUE, entries |-> d.entries \cup {name}]

Running == [kind |-> "running", detail |-> <<>>]
Ok == [kind |-> "ok", detail |-> <<>>]
Err(kind, detail) == [kind |-> kind, detail |-> detail]

\* outcomes of running an external process through run_command (src/lib.rs:18-25)
ProcessOutcomes ==
    { [spawned |-> FALSE, status |-> 0, utf8 |-> TRUE],
      [spawned |-> TRUE, status |-> 0, utf8 |-> TRUE],
      [spawned |-> TRUE, status |-> 1, utf8 |-> TRUE],
      [spawned |-> TRUE, status |-> 0, utf8 |-> FALSE] }

\* run_command: Err when the process cannot be spawned (cmd.output()?) or its
\* stdout is not UTF-8 (String::from_utf8(..)?); the exit status is not read
run_command(proc) ==
    IF ~proc.spawned THEN Err("spawn", <<"llvm-bolt">>)
    ELSE IF ~proc.utf8 THEN Err("utf8", <<"llvm-bolt">>)
    ELSE Ok

\* faulty variant: line 82 is missing, the subdirectory is never created
instrument_binary_no_mkdir(path, profile_dir, d, mkdir_ok, proc) ==
    LET basename == file_stem(path) IN
    [disk |-> d,
     calls |-> IF proc.spawned
               THEN << [input |-> as_str(path),
                        profile |-> as_str(profile_dir) \o <<SLASH>> \o basename
                                    \o <<SLASH, PROFILE>>,
                        output |-> as_str(join(parent(path),
                                               basename \o <<BOLT_SUFFIX>>)),
                        subdir_exists |-> d.exists /\ basename \in d.entries,
                        status |-> proc.status] >>
               ELSE <<>>,
     result |-> run_command(proc),
     target_path |-> join(parent(path), basename \o <<BOLT_SUFFIX>>)]

(***************************************************************************)
(* instrument_binary (src/bolt/instrument.rs:73-112) on disk state d.      *)
(* mkdir_ok is whether create_dir_all succeeds and proc what happens to    *)
(* the BOLT process.  Every executable path cargo reports names a file, so *)
(* the expect() calls of lines 81 and 86 find a stem and a parent.         *)
(* A call records the three path arguments given to BOLT and, as seen at   *)
(* the moment the process is launched, whether the profile subdirectory    *)
(* exists.                                                                 *)
(***************************************************************************)
instrument_binary(path, profile_dir, d, mkdir_ok, proc) ==
    LET basename == file_stem(path)
        d1 == IF mkdir_ok THEN create_dir_all_sub(d, basename) ELSE d
        target_path == join(parent(path), basename \o <<BOLT_SUFFIX>>)
        profile_path == as_str(profile_dir) \o <<SLASH>> \o basename
                        \o <<SLASH, PROFILE>>
    IN  IF ~mkdir_ok
        THEN [disk |-> d1, calls |-> <<>>,
              result |-> Err("create_dir_all", basename),
              target_path |-> target_path]
        ELSE [disk |-> d1,
              calls |-> IF proc.spawned
                        THEN << [input |-> as_str(path),
                                 profile |-> profile_path,
                                 output |-> as_str(target_path),
                                 subdir_exists |-> d1.exists /\ basename \in d1.entries,
                                 status |-> proc.status] >>
                        ELSE <<>>,
              result |-> run_command(proc),
              target_path |-> target_path]

\* the files the BOLT processes of a call of instrument_binary wrote: llvm-bolt
\* is given "-o" target_path (lines 93-109) and writes it when it exits with 0
bolt_outputs(calls) == {calls[k].output : k \in {j \in 1..Len(calls) : calls[j].status = 0}}

(***************************************************************************)
(* The environment.  A process environment maps each variable name to      *)
(* [set, value]; a value is a string, kept as a sequence of chunks.        *)
(***************************************************************************)
RUSTFLAGS == "RUSTFLAGS"
EnvNames == {RUSTFLAGS, "PATH"}
Unset == [set |-> FALSE, value |-> <<>>]
Var(value) == [set |-> TRUE, value |-> value]
NoEnv == [k \in EnvNames |-> Unset]
NoChild == [spawned |-> FALSE, vars |-> NoEnv]

\* bolt_rustflags (src/bolt/mod.rs:9-11)
bolt_rustflags == "-C link-args=-Wl,-q"

\* faulty variant: the extra flags replace the value of RUSTFLAGS
rustflags_env_replaces(inherited, extra) ==
    [k \in {RUSTFLAGS} |-> <<extra>>]

\* cargo_command_with_flags, lines 22-26: the map handed to cargo_command.
\* std::env::var(..).unwrap_or_default() is the value, or "" when unset
rustflags_env(inherited, extra) ==
    LET rustflags == IF inherited[RUSTFLAGS].set THEN inherited[RUSTFLAGS].value ELSE <<>> IN
    [k \in {RUSTFLAGS} |-> rustflags \o <<" ", extra>>]

\* cargo_command, lines 84-88: command.env(key, value) for every entry of the
\* map; the child inherits every other variable of its parent
command_env(inherited, overrides) ==
    [k \in EnvNames |-> IF k \in DOMAIN overrides THEN Var(overrides[k]) ELSE inherited[k]]

(***************************************************************************)
(* SpecArgs: the argument filter and the command builder applied to every  *)
(* user argument list of at most MaxLen tokens.                            *)
(***************************************************************************)
ArgsInit ==
    /\ apc = "start"
    /\ cargo_args \in ArgLists
    /\ parsed = CargoArgsDefault
    /\ command = <<>>
    /\ cmd_result = "none"
    /\ ipc = "off"
    /\ exe = <<>>
    /\ bolt_dir = <<>>
    /\ disk = [exists |-> FALSE, entries |-> {}]
    /\ bolt_calls = <<>>
    /\ result = Running
    /\ pc = "off"
    /\ runs = 0
    /\ stream = <<>>
    /\ next = 1
    /\ trace = <<>>
    /\ exit_code = 0
    /\ binaries = {}
    /\ epc = "off"
    /\ env = NoEnv
    /\ flags = ""
    /\ child_env = NoChild

\* a direct call of parse_cargo_args, as the unit tests make (src/build.rs:162-195)
ParseArgs ==
    /\ apc = "start"
    /\ parsed' = parse_cargo_args(cargo_args)
    /\ apc' = "parsed"
    /\ UNCHANGED <<binaries, evars, cargo_args, command, cmd_result, ivars, pvars>>

\* cargo_command up to the point where the child process is launched
BuildCommand ==
    /\ apc \in {"start", "parsed"}
    /\ \E rustc \in RustcOutcomes :
         LET r == cargo_command(BUILD, cargo_args, rustc) IN
         /\ parsed' = r.parsed
         /\ command' = r.args
         /\ cmd_result' = IF r.ok THEN "built" ELSE "no_target"
    /\ apc' = "commanded"
    /\ UNCHANGED <<binaries, evars, cargo_args, ivars, pvars>>

ArgsNext == ParseArgs \/ BuildCommand

SpecArgs == ArgsInit /\ [][ArgsNext]_vars

(***************************************************************************)
(* SpecPaths: instrument_binary applied to one executable path and one     *)
(* profile directory, over every state of that directory.                  *)
(***************************************************************************)
Name(text) == <<text>>

OUT_MYAPP     == <<ROOT, Name("out"), Name("myapp")>>
OUT_MYAPP_EXE == <<ROOT, Name("out"), <<"myapp", DOT, "exe">> >>
DEPS_TOOL     == <<ROOT, Name("out"), Name("deps"), <<"tool", DOT, "v2", DOT, "bin">> >>
REL_MYAPP     == <<Name("myapp")>>
OUT_HIDDEN    == <<ROOT, Name("out"), <<DOT, "hidden">> >>
OUT_HIDDEN_D  == <<ROOT, Name("out"), <<DOT, "cfg", DOT, "d">> >>
OUT_TRAILING  == <<ROOT, Name("out"), <<"lib", DOT>> >>

ExecutablePaths ==
    {OUT_MYAPP, OUT_MYAPP_EXE, DEPS_TOOL, REL_MYAPP, OUT_HIDDEN, OUT_HIDDEN_D, OUT_TRAILING}

PROF == <<ROOT, Name("prof")>>
ProfileDirs == {PROF, <<ROOT, Name("ws"), Name("target"), Name("bolt-profiles")>>,
                <<Name("prof")>>}

STALE == <<"old", DOT, "fdata">>       \* a file an earlier workload left behind

DiskStates ==
    {Absent} \cup {[exists |-> TRUE, entries |-> e] : e \in SUBSET {Name("myapp"), STALE}}

PathsInit ==
    /\ ipc = "start"
    /\ exe \in ExecutablePaths
    /\ bolt_dir \in ProfileDirs
    /\ disk \in DiskStates
    /\ bolt_calls = <<>>
    /\ result = Running
    /\ apc = "off"
    /\ cargo_args = <<>>
    /\ parsed = CargoArgsDefault
    /\ command = <<>>
    /\ cmd_result = "none"
    /\ pc = "off"
    /\ runs = 0
    /\ stream = <<>>
    /\ next = 1
    /\ trace = <<>>
    /\ exit_code = 0
    /\ binaries = {}
    /\ epc = "off"
    /\ env = NoEnv
    /\ flags = ""
    /\ child_env = NoChild

InstrumentBinary ==
    /\ ipc = "start"
    /\ \E mkdir_ok \in BOOLEAN, proc \in ProcessOutcomes :
         LET r == instrument_binary(exe, bolt_dir, disk, mkdir_ok, proc) IN
         /\ disk' = r.disk
         /\ binaries' = binaries \cup bolt_outputs(r.calls)
         /\ bolt_calls' = bolt_calls \o r.calls
         /\ result' = r.result
    /\ ipc' = "returned"
    /\ UNCHANGED <<exe, bolt_dir, avars, pvars, evars>>

PathsNext == InstrumentBinary

SpecPaths == PathsInit /\ [][PathsNext]_vars

(***************************************************************************)
(* The records of cargo's stdout, as Message::parse_stream yields them     *)
(* (src/bolt/instrument.rs:37-38): the cargo_metadata::Message variants    *)
(* the code matches on, one variant it ignores, and a record the iterator  *)
(* yields as Err.                                                          *)
(***************************************************************************)
Rec(kind, text, rendered, has_rendered, executable, has_executable, success) ==
    [kind |-> kind, text |-> text, rendered |-> rendered,
     has_rendered |-> has_rendered, executable |-> executable,
     has_executable |-> has_executable, success |-> success]

TextLine(line) == Rec("TextLine", line, "", FALSE, <<>>, FALSE, FALSE)
CompilerMessage(message, rendered, has_rendered) ==
    Rec("CompilerMessage", message, rendered, has_rendered, <<>>, FALSE, FALSE)
CompilerArtifact(name, executable, has_executable) ==
    Rec("CompilerArtifact", name, "", FALSE, executable, has_executable, FALSE)
BuildFinished(success) == Rec("BuildFinished", "", "", FALSE, <<>>, FALSE, success)
BuildScriptExecuted == Rec("BuildScriptExecuted", "", "", FALSE, <<>>, FALSE, FALSE)
Undecodable == Rec("Undecodable", "", "", FALSE, <<>>, FALSE, FALSE)

\* the executables of the pipeline runs: two with the same base name, one other
PipelineExecutables == {OUT_MYAPP, OUT_MYAPP_EXE, DEPS_TOOL}

Records ==
    { TextLine("Compiling myapp"),
      CompilerMessage("unused variable", "warning: unused variable", TRUE),
      CompilerMessage("unused variable", "", FALSE),
      CompilerArtifact("lib", <<>>, FALSE),
      BuildFinished(TRUE), BuildFinished(FALSE),
      BuildScriptExecuted, Undecodable }
    \cup {CompilerArtifact("bin", e, TRUE) : e \in PipelineExecutables}

Streams == UNION {[1..n -> Records] : n \in 0..MaxEvents}

\* the argument lists given to the pipeline runs
PipelineArgs == {<<>>, <<TARGET, "x64", RELEASE>>}

Step(op, arg) == [op |-> op, arg |-> arg]
Ops(t) == [k \in 1..Len(t) |-> t[k].op]

\* faulty variant: the directory is recreated without being removed first
clear_directory_keeps(d, outcome) ==
    IF outcome = "ok" THEN [disk |-> [d EXCEPT !.exists = TRUE], result |-> Ok]
    ELSE [disk |-> d, result |-> Err("clear_directory", <<outcome>>)]

\* clear_directory (src/lib.rs:45-48): remove_dir_all(path)? then
\* create_dir_all(path).  outcome: "ok", "remove_failed" (nothing removed) or
\* "create_failed" (the directory is gone and could not be recreated)
clear_directory(d, outcome) ==
    CASE outcome = "ok" ->
           [disk |-> [exists |-> TRUE, entries |-> {}], result |-> Ok]
      [] outcome = "remove_failed" ->
           [disk |-> d, result |-> Err("clear_directory", <<outcome>>)]
      [] OTHER ->
           [disk |-> Absent, result |-> Err("clear_directory", <<outcome>>)]

ClearOutcomes == {"ok", "remove_failed", "create_failed"}

\* faulty variant: the rendered form of a diagnostic is never used
write_metadata_message_plain(message) ==
    CASE message.kind = "TextLine" -> <<message.text>>
      [] message.kind = "CompilerMessage" -> <<message.text>>
      [] OTHER -> <<>>

\* write_metadata_message (src/build.rs:120-137): what a record renders to
write_metadata_message(message) ==
    CASE message.kind = "TextLine" -> <<message.text>>
      [] message.kind = "CompilerMessage" ->
           <<IF message.has_rendered THEN message.rendered ELSE message.text>>
      [] OTHER -> <<>>

\* cargo_json_output_to_string (src/build.rs:42-51): the rendered records, or
\* the decode error of the first record that cannot be decoded
RECURSIVE render_all(_, _, _)
render_all(output, i, messages) ==
    IF i > Len(output) THEN [ok |-> TRUE, text |-> messages]
    ELSE IF output[i].kind = "Undecodable"
    THEN [ok |-> FALSE, text |-> <<"decode error">>]
    ELSE render_all(output, i + 1, messages \o write_metadata_message(output[i]))

cargo_json_output_to_string(output) == render_all(output, 1, <<>>)

\* outcomes of the cargo child process: not spawned, exit status 0, exit status 101
CargoOutcomes ==
    { [spawned |-> FALSE, status |-> 0],
      [spawned |-> TRUE, status |-> 0],
      [spawned |-> TRUE, status |-> 101] }

STDERR == "error: could not compile"

\* faulty variant: the exit status of cargo is not looked at
cargo_command_with_flags_ignores_status(cargo_cmd, cargo, rustc, proc, stdout) ==
    LET built == cargo_command(cargo_cmd, cargo, rustc) IN
    IF ~built.ok THEN [built |-> built, ran |-> FALSE, result |-> Err("target", <<built.error>>)]
    ELSE IF ~proc.spawned THEN [built |-> built, ran |-> FALSE, result |-> Err("spawn", <<"cargo">>)]
    ELSE [built |-> built, ran |-> TRUE, result |-> Ok]

\* cargo_command_with_flags (src/build.rs:17-40), the environment apart
cargo_command_with_flags(cargo_cmd, cargo, rustc, proc, stdout) ==
    LET built == cargo_command(cargo_cmd, cargo, rustc) IN
    IF ~built.ok THEN [built |-> built, ran |-> FALSE, result |-> Err("target", <<built.error>>)]
    ELSE IF ~proc.spawned THEN [built |-> built, ran |-> FALSE, result |-> Err("spawn", <<"cargo">>)]
    ELSE IF proc.status # 0
    THEN [built |-> built, ran |-> TRUE,
          result |-> Err("build",
              <<"Cargo error", "exit status: 101", STDERR>>
              \o (LET replay == cargo_json_output_to_string(stdout) IN
                  IF replay.ok THEN replay.text
                  ELSE <<"Could not parse Cargo stdout: ">> \o replay.text))]
    ELSE [built |-> built, ran |-> TRUE, result |-> Ok]

(***************************************************************************)
(* SpecEnv: cargo_command_with_flags called once in a process whose        *)
(* environment has RUSTFLAGS unset, empty or set.                          *)
(***************************************************************************)
ParentRustflags ==
    {Unset, Var(<<>>), Var(<<"-C target-cpu=native">>),
     Var(<<"-C opt-level=3", " ", "-g">>)}
ParentEnvs ==
    {[k \in EnvNames |-> IF k = RUSTFLAGS THEN r ELSE path] :
        r \in ParentRustflags, path \in {Unset, Var(<<"/usr/bin">>)}}
ExtraFlags == {bolt_rustflags, "-Cprofile-generate=/pgo"}

EnvInit ==
    /\ epc = "start"
    /\ env \in ParentEnvs
    /\ flags \in ExtraFlags
    /\ child_env = NoChild
    /\ cargo_args \in PipelineArgs
    /\ parsed = CargoArgsDefault
    /\ command = <<>>
    /\ cmd_result = "none"
    /\ result = Running
    /\ stream = <<>>
    /\ apc = "off"
    /\ ipc = "off"
    /\ exe = <<>>
    /\ bolt_dir = <<>>
    /\ disk = Absent
    /\ bolt_calls = <<>>
    /\ binaries = {}
    /\ pc = "off"
    /\ runs = 0
    /\ next = 1
    /\ trace = <<>>
    /\ exit_code = 0

\* one call of cargo_command_with_flags (src/build.rs:17-40); the child gets its
\* environment when cargo_command has built the command and launches it
CargoCommandWithFlags ==
    /\ epc = "start"
    /\ \E rustc \in RustcOutcomes, proc \in CargoOutcomes, stdout \in Streams :
         LET r == cargo_command_with_flags(BUILD, cargo_args, rustc, proc, stdout) IN
         /\ parsed' = r.built.parsed
         /\ command' = r.built.args
         /\ cmd_result' = IF r.built.ok THEN "built" ELSE "no_target"
         /\ child_env' = IF r.ran
                          THEN [spawned |-> TRUE,
                                vars |-> command_env(env, rustflags_env(env, flags))]
                          ELSE NoChild
         /\ stream' = IF r.ran THEN stdout ELSE <<>>
         /\ result' = r.result
    /\ epc' = "returned"
    /\ UNCHANGED <<env, flags, apc, cargo_args, ipc, exe, bolt_dir, disk, bolt_calls,
                   binaries, pc, runs, next, trace, exit_code>>

EnvNext == CargoCommandWithFlags

SpecEnv == EnvInit /\ [][EnvNext]_vars

(***************************************************************************)
(* Spec: the process "cargo pgo bolt instrument <cargo_args>", started up  *)
(* to MaxRuns times on the same workspace.  Between two runs anything may  *)
(* write into the profile directory.                                       *)
(***************************************************************************)
Init ==
    /\ pc = "idle"
    /\ runs = 0
    /\ bolt_dir = PROF
    /\ disk \in {Absent, [exists |-> TRUE, entries |-> {}],
                 [exists |-> TRUE, entries |-> {STALE}]}
    /\ cargo_args = <<>>
    /\ parsed = CargoArgsDefault
    /\ command = <<>>
    /\ cmd_result = "none"
    /\ stream = <<>>
    /\ next = 1
    /\ bolt_calls = <<>>
    /\ trace = <<>>
    /\ result = Running
    /\ exit_code = 0
    /\ apc = "off"
    /\ ipc = "off"
    /\ exe = <<>>
    /\ binaries = {}
    /\ epc = "off"
    /\ env = NoEnv
    /\ flags = ""
    /\ child_env = NoChild

Fail(error) ==
    /\ result' = error
    /\ pc' = "returned"

\* main -> run -> bolt_instrument, lines 22-24: the configuration, the workspace
\* and the profile directory path are resolved, or one of them fails
Start ==
    /\ pc \in {"idle", "exited"}
    /\ runs < MaxRuns
    /\ runs' = runs + 1
    /\ cargo_args' \in PipelineArgs
    /\ parsed' = CargoArgsDefault
    /\ command' = <<>>
    /\ cmd_result' = "none"
    /\ stream' = <<>>
    /\ next' = 1
    /\ bolt_calls' = <<>>
    /\ trace' = <<>>
    /\ \E ok \in BOOLEAN :
         IF ok THEN result' = Running /\ pc' = "find_bolt_env"
         ELSE Fail(Err("workspace", <<>>))
    /\ exit_code' = 0
    /\ UNCHANGED <<binaries, evars, apc, ipc, exe, bolt_dir, disk>>

\* faulty variant: the profile directory is cleared before BOLT is looked up
FindBoltEnv_after_clear ==
    /\ pc = "find_bolt_env"
    /\ \E found \in BOOLEAN :
         IF found THEN pc' = "prepare" /\ UNCHANGED <<result, disk>>
         ELSE /\ disk' = IF disk.exists THEN [exists |-> TRUE, entries |-> {}] ELSE disk
              /\ Fail(Err("find_bolt_env", <<>>))
    /\ UNCHANGED <<binaries, evars, avars, ipc, exe, bolt_dir, bolt_calls,
                   runs, stream, next, trace, exit_code>>

\* line 26: find_bolt_env()?
FindBoltEnv ==
    /\ pc = "find_bolt_env"
    /\ \E found \in BOOLEAN :
         IF found THEN pc' = "prepare" /\ UNCHANGED result
         ELSE Fail(Err("find_bolt_env", <<>>))
    /\ UNCHANGED <<binaries, evars, avars, ipc, exe, bolt_dir, disk, bolt_calls,
                   runs, stream, next, trace, exit_code>>

\* what the profile directory holds: nothing, only files left by workloads, or
\* subdirectories made by an earlier run
Held(d) ==
    IF d.entries = {} THEN <<>>
    ELSE IF d.entries \subseteq {STALE} THEN <<"files">>
    ELSE <<"subdirectories">>

\* faulty variant: an error of clear_directory is logged and the run goes on
PrepareDirectory_goes_on ==
    /\ pc = "prepare"
    /\ IF disk.exists
       THEN \E outcome \in ClearOutcomes :
              LET r == clear_directory(disk, outcome) IN
              /\ disk' = r.disk
              /\ trace' = Append(trace, Step("clear_directory",
                            <<outcome>> \o Held(disk)))
              /\ pc' = "build"
              /\ UNCHANGED result
       ELSE /\ trace' = Append(trace, Step("no_directory", <<>>))
            /\ pc' = "build"
            /\ UNCHANGED <<disk, result>>
    /\ UNCHANGED <<binaries, evars, avars, ipc, exe, bolt_dir, bolt_calls, runs, stream,
                   next, exit_code>>

\* lines 28-33: the profile directory step.  The trace records the call of
\* clear_directory with its outcome and whether the directory had entries, or
\* that there was no directory.
PrepareDirectory ==
    /\ pc = "prepare"
    /\ IF disk.exists
       THEN \E outcome \in ClearOutcomes :
              LET r == clear_directory(disk, outcome) IN
              /\ disk' = r.disk
              /\ trace' = Append(trace, Step("clear_directory",
                            <<outcome>> \o Held(disk)))
              /\ IF r.result = Ok
                 THEN pc' = "build" /\ UNCHANGED result
                 ELSE Fail(r.result)
       ELSE /\ trace' = Append(trace, Step("no_directory", <<>>))
            /\ pc' = "build"
            /\ UNCHANGED <<disk, result>>
    /\ UNCHANGED <<binaries, evars, avars, ipc, exe, bolt_dir, bolt_calls, runs, stream,
                   next, exit_code>>

\* line 35: cargo_command_with_flags(CargoCommand::Build, bolt_rustflags(), cargo_args)?
Build ==
    /\ pc = "build"
    /\ \E rustc \in RustcOutcomes, proc \in CargoOutcomes, stdout \in Streams :
         LET r == cargo_command_with_flags(BUILD, cargo_args, rustc, proc, stdout) IN
         /\ parsed' = r.built.parsed
         /\ command' = r.built.args
         /\ cmd_result' = IF r.built.ok THEN "built" ELSE "no_target"
         /\ trace' = IF r.ran THEN Append(trace, Step("cargo", <<IF proc.status = 0 THEN "success" ELSE "failure">>)) ELSE trace
         /\ IF r.result = Ok
            THEN /\ stream' = stdout
                 /\ pc' = "events"
                 /\ UNCHANGED result
            ELSE /\ stream' = IF r.ran THEN stdout ELSE <<>>
                 /\ Fail(r.result)
    /\ next' = 1
    /\ UNCHANGED <<binaries, evars, apc, cargo_args, ipc, exe, bolt_dir, disk, bolt_calls,
                   runs, exit_code>>

EventFrame == UNCHANGED <<avars, ipc, exe, bolt_dir, runs, stream, exit_code, evars>>

\* faulty variant: a record that cannot be decoded is skipped
OnDecodeError_skips ==
    /\ pc = "events" /\ next <= Len(stream)
    /\ stream[next].kind = "Undecodable"
    /\ next' = next + 1
    /\ UNCHANGED <<disk, binaries, bolt_calls, trace, pc, result>>
    /\ EventFrame

\* faulty variant: a decode error undoes what the run has made so far
OnDecodeError_rolls_back ==
    /\ pc = "events" /\ next <= Len(stream)
    /\ stream[next].kind = "Undecodable"
    /\ Fail(Err("decode", <<>>))
    /\ disk' = [disk EXCEPT !.entries = {}]
    /\ binaries' = binaries \ bolt_outputs(bolt_calls)
    /\ UNCHANGED <<bolt_calls, next, trace>>
    /\ EventFrame

\* line 38: let message = message?; on a record that cannot be decoded
OnDecodeError ==
    /\ pc = "events" /\ next <= Len(stream)
    /\ stream[next].kind = "Undecodable"
    /\ Fail(Err("decode", <<>>))
    /\ UNCHANGED <<disk, binaries, bolt_calls, next, trace>>
    /\ EventFrame

\* faulty variant: the artifacts are instrumented last to first
OnCompilerArtifact_reversed ==
    /\ pc = "events" /\ next <= Len(stream)
    /\ stream[next].kind = "CompilerArtifact"
    /\ LET artifact == stream[next] IN
       IF artifact.has_executable
       THEN \E mkdir_ok \in BOOLEAN, proc \in ProcessOutcomes :
              LET r == instrument_binary(artifact.executable, bolt_dir, disk,
                                         mkdir_ok, proc) IN
              /\ disk' = r.disk
              /\ binaries' = binaries \cup bolt_outputs(r.calls)
              /\ bolt_calls' = r.calls \o bolt_calls
              /\ IF r.result = Ok
                 THEN /\ trace' = trace
                          \o [k \in 1..Len(r.calls) |-> Step("bolt", r.calls[k].input)]
                          \o <<Step("log", <<"instrumented successfully">>
                                            \o as_str(r.target_path))>>
                      /\ next' = next + 1
                      /\ UNCHANGED <<pc, result>>
                 ELSE /\ trace' = trace
                          \o [k \in 1..Len(r.calls) |-> Step("bolt", r.calls[k].input)]
                      /\ Fail(r.result)
                      /\ UNCHANGED next
       ELSE /\ next' = next + 1
            /\ UNCHANGED <<disk, binaries, bolt_calls, trace, pc, result>>
    /\ EventFrame

\* lines 40-53: a CompilerArtifact record; with an executable, instrument_binary
OnCompilerArtifact ==
    /\ pc = "events" /\ next <= Len(stream)
    /\ stream[next].kind = "CompilerArtifact"
    /\ LET artifact == stream[next] IN
       IF artifact.has_executable
       THEN \E mkdir_ok \in BOOLEAN, proc \in ProcessOutcomes :
              LET r == instrument_binary(artifact.executable, bolt_dir, disk,
                                         mkdir_ok, proc) IN
              /\ disk' = r.disk
              /\ binaries' = binaries \cup bolt_outputs(r.calls)
              /\ bolt_calls' = bolt_calls \o r.calls
              /\ IF r.result = Ok
                 THEN /\ trace' = trace
                          \o [k \in 1..Len(r.calls) |-> Step("bolt", r.calls[k].input)]
                          \o <<Step("log", <<"instrumented successfully">>
                                            \o as_str(r.target_path))>>
                      /\ next' = next + 1
                      /\ UNCHANGED <<pc, result>>
                 ELSE /\ trace' = trace
                          \o [k \in 1..Len(r.calls) |-> Step("bolt", r.calls[k].input)]
                      /\ Fail(r.result)
                      /\ UNCHANGED next
       ELSE /\ next' = next + 1
            /\ UNCHANGED <<disk, binaries, bolt_calls, trace, pc, result>>
    /\ EventFrame

\* faulty variant: BuildFinished ends the loop
OnBuildFinished_stops ==
    /\ pc = "events" /\ next <= Len(stream)
    /\ stream[next].kind = "BuildFinished"
    /\ trace' = Append(trace, Step("log",
                  IF stream[next].success
                  THEN <<"build finished successfully">>
                  ELSE <<"build has failed">>))
    /\ next' = next + 1
    /\ result' = Ok
    /\ pc' = "returned"
    /\ UNCHANGED <<disk, binaries, bolt_calls>>
    /\ EventFrame

\* lines 54-63: a BuildFinished record
OnBuildFinished ==
    /\ pc = "events" /\ next <= Len(stream)
    /\ stream[next].kind = "BuildFinished"
    /\ trace' = Append(trace, Step("log",
                  IF stream[next].success
                  THEN <<"build finished successfully">>
                  ELSE <<"build has failed">>))
    /\ next' = next + 1
    /\ UNCHANGED <<disk, binaries, bolt_calls, pc, result>>
    /\ EventFrame

\* line 64: any other record goes to handle_metadata_message (src/build.rs:116-118)
OnOtherMessage ==
    /\ pc = "events" /\ next <= Len(stream)
    /\ stream[next].kind \notin {"Undecodable", "CompilerArtifact", "BuildFinished"}
    /\ trace' = trace \o [k \in 1..Len(write_metadata_message(stream[next])) |->
                            Step("stdout", write_metadata_message(stream[next]))]
    /\ next' = next + 1
    /\ UNCHANGED <<disk, binaries, bolt_calls, pc, result>>
    /\ EventFrame

\* line 68: the stream is exhausted, Ok(())
Finish ==
    /\ pc = "events" /\ next > Len(stream)
    /\ result' = Ok
    /\ pc' = "returned"
    /\ UNCHANGED <<disk, binaries, bolt_calls, next, trace>>
    /\ EventFrame

\* main (src/main.rs:47-54): an error is printed and the process exits with 1
Exit ==
    /\ pc = "returned"
    /\ exit_code' = IF result = Ok THEN 0 ELSE 1
    /\ trace' = IF result = Ok THEN trace ELSE Append(trace, Step("stderr", <<result.kind>>))
    /\ pc' = "exited"
    /\ UNCHANGED <<binaries, evars, avars, ivars, runs, stream, next>>

\* between two runs: a workload (or anything else) writes into the profile directory
OutsideWrite ==
    /\ pc \in {"idle", "exited"}
    /\ runs < MaxRuns
    /\ STALE \notin disk.entries \/ ~disk.exists
    /\ disk' = [exists |-> TRUE, entries |-> disk.entries \cup {STALE}]
    /\ UNCHANGED <<binaries, evars, avars, ipc, exe, bolt_dir, bolt_calls, result, pvars>>

Next ==
    \/ Start
    \/ FindBoltEnv
    \/ PrepareDirectory
    \/ Build
    \/ OnDecodeError
    \/ OnCompilerArtifact
    \/ OnBuildFinished
    \/ OnOtherMessage
    \/ Finish
    \/ Exit
    \/ OutsideWrite

Spec == Init /\ [][Next]_vars

(***************************************************************************)
(* Properties of the argument filter.                                      *)
(*                                                                         *)
(* The role of a token is the one the left-to-right scan gives it: the     *)
(* token right after a --message-format flag is that flag's value,         *)
(* whatever it spells, and is not itself read as a flag.                   *)
(***************************************************************************)
Forbidden == {RELEASE, MESSAGE_FORMAT}

\* position i of list a holds the value of a --message-format flag
RECURSIVE IsFormatValue(_, _)
IsFormatValue(a, i) ==
    /\ i > 1
    /\ a[i - 1] = MESSAGE_FORMAT
    /\ ~IsFormatValue(a, i - 1)

\* position i of list a holds flag f (it spells f and is not a --message-format value)
IsFlag(a, i, f) == a[i] = f /\ ~IsFormatValue(a, i)

\* the tokens of a from position i on that are neither a --release flag, a
\* --message-format flag nor a --message-format value
RECURSIVE Surviving(_, _)
Surviving(a, i) ==
    IF i > Len(a) THEN <<>>
    ELSE (IF IsFormatValue(a, i) \/ a[i] \in Forbidden THEN <<>> ELSE <<a[i]>>)
         \o Surviving(a, i + 1)

\* one warning per --release / --message-format flag, in input order
RECURSIVE ExpectedWarnings(_, _)
ExpectedWarnings(a, i) ==
    IF i > Len(a) THEN <<>>
    ELSE (CASE IsFlag(a, i, RELEASE) -> <<WARN_RELEASE>>
            [] IsFlag(a, i, MESSAGE_FORMAT) -> <<WARN_MESSAGE_FORMAT>>
            [] OTHER -> <<>>)
         \o ExpectedWarnings(a, i + 1)

Prefix(a, n) == SubSeq(a, 1, n)
Suffix(a, n) == SubSeq(a, n, Len(a))
Filtered == apc # "start"       \* parse_cargo_args has returned

\* C1: whenever the argument list holds a --target flag followed by its value (a
\* token that is not itself one of the flags the filter drops), both tokens are in
\* the filtered output, adjacent, right after the tokens kept from before the flag,
\* and contains_target is true; ["--target","x64","bar"] comes back unchanged.
C1_TargetKept ==
    Filtered =>
      /\ \A i \in 1..(Len(cargo_args) - 1) :
            (IsFlag(cargo_args, i, TARGET) /\ cargo_args[i + 1] \notin Forbidden) =>
              LET k == Len(Surviving(Prefix(cargo_args, i - 1), 1)) + 1 IN
              /\ parsed.contains_target
              /\ Len(parsed.filtered) >= k + 1
              /\ parsed.filtered[k] = TARGET
              /\ parsed.filtered[k + 1] = cargo_args[i + 1]
      /\ cargo_args = <<TARGET, "x64", "bar">> =>
            parsed.filtered = cargo_args /\ parsed.contains_target

C1_Witness ==
    /\ apc = "parsed"
    /\ cargo_args = <<"foo", TARGET, "x64", "bar">>
    /\ parsed.filtered = cargo_args
    /\ parsed.contains_target

\* C2: a --message-format flag followed by a value is removed together with exactly
\* the one token after it: the output is what survives of the tokens before the
\* flag followed by what survives of the tokens after the value, so a later token
\* equal to the value stays; ["foo","--message-format","json","bar"] gives
\* ["foo","bar"] and ["--message-format","json","json"] gives ["json"].
C2_FormatFlagAndValueRemoved ==
    Filtered =>
      /\ \A i \in 1..(Len(cargo_args) - 1) :
            IsFlag(cargo_args, i, MESSAGE_FORMAT) =>
              parsed.filtered = Surviving(Prefix(cargo_args, i - 1), 1)
                                \o Surviving(Suffix(cargo_args, i + 2), 1)
      /\ cargo_args = <<"foo", MESSAGE_FORMAT, "json", "bar">> =>
            parsed.filtered = <<"foo", "bar">>
      /\ cargo_args = <<MESSAGE_FORMAT, "json", "json">> =>
            parsed.filtered = <<"json">>

C2_Witness ==
    /\ apc = "parsed"
    /\ cargo_args = <<MESSAGE_FORMAT, "json", "json">>
    /\ parsed.filtered = <<"json">>

\* C3: the filtered output holds no --release token and no --message-format token,
\* whatever the input, and the warnings logged are exactly one per --release flag
\* and one per --message-format flag of the input, in input order.
C3_NoForbiddenFlag ==
    Filtered =>
      /\ \A k \in 1..Len(parsed.filtered) : parsed.filtered[k] \notin Forbidden
      /\ parsed.warnings = ExpectedWarnings(cargo_args, 1)

C3_Witness ==
    /\ apc = "parsed"
    /\ cargo_args = <<RELEASE, "foo", MESSAGE_FORMAT, RELEASE>>
    /\ parsed.filtered = <<"foo">>
    /\ parsed.warnings = <<WARN_RELEASE, WARN_MESSAGE_FORMAT>>

\* C4: the filtered output is the input with exactly the --release flags, the
\* --message-format flags and the --message-format values deleted: every other
\* token is there once, unchanged, in input order.
C4_OthersPassThrough ==
    Filtered => parsed.filtered = Surviving(cargo_args, 1)

C4_Witness ==
    /\ apc = "parsed"
    /\ cargo_args = <<"foo", RELEASE, "bar", "foo">>
    /\ parsed.filtered = <<"foo", "bar", "foo">>

(***************************************************************************)
(* The target triples of an argument list, as cargo reads it: --target and *)
(* --message-format each take the next token as their value, and           *)
(* --target=<triple> carries its value in the same token.                  *)
(***************************************************************************)
RECURSIVE TargetTriples(_, _)
TargetTriples(a, i) ==
    IF i > Len(a) THEN <<>>
    ELSE CASE a[i] = TARGET ->
                (IF i < Len(a) THEN <<a[i + 1]>> ELSE <<>>) \o TargetTriples(a, i + 2)
           [] a[i] = MESSAGE_FORMAT -> TargetTriples(a, i + 2)
           [] a[i] = TARGET_EQ -> <<"x64">> \o TargetTriples(a, i + 1)
           [] OTHER -> TargetTriples(a, i + 1)

\* every --target flag of the list, as cargo reads it, is followed by a value
RECURSIVE EveryTargetHasValue(_, _)
EveryTargetHasValue(a, i) ==
    IF i > Len(a) THEN TRUE
    ELSE CASE a[i] = TARGET -> i < Len(a) /\ EveryTargetHasValue(a, i + 2)
           [] a[i] = MESSAGE_FORMAT -> EveryTargetHasValue(a, i + 2)
           [] OTHER -> EveryTargetHasValue(a, i + 1)

\* C5: the command built by cargo_command carries exactly one target triple: the
\* user's when the user supplied one, the resolved host triple otherwise.  (Stated
\* for the argument lists in which no --target flag lacks its value.)
C5_ExactlyOneTargetTriple ==
    (cmd_result = "built" /\ EveryTargetHasValue(cargo_args, 1)) =>
      LET user == TargetTriples(cargo_args, 1) IN
      TargetTriples(command, 1) = IF user # <<>> THEN <<user[1]>> ELSE <<HostTriple>>

(***************************************************************************)
(* Properties of the pipeline.                                             *)
(***************************************************************************)
PrepareOps == {"clear_directory", "no_directory"}
WorkOps == {"cargo", "bolt"}
Positions(t, ops) == {k \in 1..Len(t) : t[k].op \in ops}

C7_PreparedOnceBeforeBuild ==
    LET prep == Positions(trace, PrepareOps)
        work == Positions(trace, WorkOps)
    IN  /\ Cardinality(prep) <= 1
        /\ (pc \in {"build", "events"} \/ work # {}) => Cardinality(prep) = 1
        /\ \A j \in prep, k \in work : j < k
        /\ \A j \in prep :
              (trace[j].op = "clear_directory" /\ trace[j].arg[1] # "ok") =>
                /\ work = {}
                /\ pc \in {"returned", "exited"}
                /\ result.kind = "clear_directory"
                /\ pc = "exited" => exit_code = 1

C7_Witness ==
    /\ pc = "exited"
    /\ exit_code = 1
    /\ result.kind = "clear_directory"
    /\ Ops(trace) = <<"clear_directory", "stderr">>
    /\ bolt_calls = <<>>

\* C8: a BOLT process that exits with a non-zero status is the last one of the
\* run: the run has returned an error and logged no success for that artifact.
C8_BoltFailureAborts ==
    \A k \in 1..Len(bolt_calls) :
      bolt_calls[k].status # 0 =>
        /\ k = Len(bolt_calls)
        /\ pc \in {"returned", "exited"}
        /\ result.kind \notin {"ok", "running"}
        /\ trace[Len(trace)].op # "log"

\* the executables of the CompilerArtifact records among the first n of a stream
RECURSIVE ExecutablesOf(_, _)
ExecutablesOf(records, n) ==
    IF n = 0 THEN <<>>
    ELSE ExecutablesOf(records, n - 1)
         \o (IF records[n].kind = "CompilerArtifact" /\ records[n].has_executable
             THEN <<as_str(records[n].executable)>> ELSE <<>>)

Inputs(calls) == [k \in 1..Len(calls) |-> calls[k].input]

\* C9: as long as no record has failed, the BOLT processes run so far are, in
\* order, one per CompilerArtifact record with an executable among the records
\* handled, and none for any other record; a run that returns Ok has handled the
\* whole stream; one executable artifact followed by BuildFinished(true) gives one
\* BOLT process and the log line of a successful build.
C9_OneBoltPerExecutable ==
    (pc = "events" \/ (pc \in {"returned", "exited"} /\ result = Ok)) =>
      /\ Inputs(bolt_calls) = ExecutablesOf(stream, next - 1)
      /\ [k \in 1..Cardinality(Positions(trace, {"bolt"})) |->
             trace[CHOOSE j \in Positions(trace, {"bolt"}) :
                     Cardinality({i \in Positions(trace, {"bolt"}) : i <= j}) = k].arg]
           = Inputs(bolt_calls)
      /\ result = Ok => next = Len(stream) + 1
      /\ (result = Ok /\ stream = <<CompilerArtifact("bin", OUT_MYAPP, TRUE),
                                     BuildFinished(TRUE)>>) =>
            /\ Len(bolt_calls) = 1
            /\ trace[Len(trace)] = Step("log", <<"build finished successfully">>)

C9_Witness ==
    /\ pc = "returned"
    /\ result = Ok
    /\ stream = <<CompilerArtifact("bin", OUT_MYAPP, TRUE), BuildFinished(TRUE)>>
    /\ Len(bolt_calls) = 1
    /\ bolt_calls[1].input = <<"/", "out", "/", "myapp">>

\* two executable artifacts in one stream, instrumented in stream order
C9_WitnessOrder ==
    /\ pc = "returned"
    /\ result = Ok
    /\ Inputs(bolt_calls) = <<as_str(DEPS_TOOL), as_str(OUT_MYAPP)>>

(***************************************************************************)
(* Properties of the build invoker and of the event loop.  The expected    *)
(* transcript is computed record by record on the captured stdout.         *)
(***************************************************************************)
Decodes(records) == \A i \in 1..Len(records) : records[i].kind # "Undecodable"
IsDiagnostic(rec) == rec.kind = "CompilerMessage"
DiagnosticText(rec) == IF rec.has_rendered THEN rec.rendered ELSE rec.text

\* what the first n records of a stream put on the console, in order
RECURSIVE Rendered(_, _)
Rendered(records, n) ==
    IF n = 0 THEN <<>>
    ELSE Rendered(records, n - 1)
         \o (CASE records[n].kind = "TextLine" -> <<records[n].text>>
               [] IsDiagnostic(records[n]) -> <<DiagnosticText(records[n])>>
               [] OTHER -> <<>>)

CargoFailed == \E k \in 1..Len(trace) : trace[k] = Step("cargo", <<"failure">>)
CargoSucceeded == \E k \in 1..Len(trace) : trace[k] = Step("cargo", <<"success">>)
Transcript(error) == SubSeq(error.detail, 4, Len(error.detail))
NoReplay == <<"Could not parse Cargo stdout: ", "decode error">>

\* C11: a cargo process that exits with a non-zero status makes the run return a
\* build error that holds the exit status, cargo's stderr and the replay of the
\* captured stdout (the rendering of its records, or the note that it could not
\* be parsed); no record is then handled and no BOLT process is run; records are
\* handled only after a cargo process that exited with status 0, and they are
\* the captured stdout.
C11_BuildErrorStopsRun ==
    /\ CargoFailed =>
          /\ pc \in {"returned", "exited"}
          /\ result.kind = "build"
          /\ SubSeq(result.detail, 1, 3) = <<"Cargo error", "exit status: 101", STDERR>>
          /\ Transcript(result) = IF Decodes(stream) THEN Rendered(stream, Len(stream))
                                   ELSE NoReplay
          /\ next = 1
          /\ bolt_calls = <<>>
          /\ Positions(trace, {"bolt", "stdout", "log"}) = {}
    /\ result.kind = "build" => CargoFailed
    /\ (pc = "events" \/ next > 1 \/ bolt_calls # <<>>) => CargoSucceeded /\ ~CargoFailed

\* the failed build had captured an executable artifact, and BOLT was not run
C11_Witness ==
    /\ pc = "exited"
    /\ exit_code = 1
    /\ result.kind = "build"
    /\ stream = <<CompilerMessage("unused variable", "warning: unused variable", TRUE),
                  CompilerArtifact("bin", OUT_MYAPP, TRUE)>>
    /\ Transcript(result) = <<"warning: unused variable">>
    /\ bolt_calls = <<>>

\* C12 as stated: the transcript of a build error holds the text of every
\* diagnostic record of the captured stdout, whatever else the stdout holds
C12_TranscriptHoldsEveryDiagnostic ==
    result.kind = "build" =>
      \A i \in 1..Len(stream) :
        IsDiagnostic(stream[i]) =>
          \E k \in 1..Len(Transcript(result)) :
            Transcript(result)[k] = DiagnosticText(stream[i])

\* C12, amended: when every record of the captured stdout decodes, the transcript
\* of a build error holds the text of every diagnostic record, rendered form when
\* there is one and plain message otherwise, in stream order; when some record
\* does not decode, the transcript is the note that the stdout could not be
\* parsed, and holds the text of no diagnostic record.
C12_TranscriptOfDecodableStdout ==
    result.kind = "build" =>
      LET t == Transcript(result)
          diag == {i \in 1..Len(stream) : IsDiagnostic(stream[i])}
      IN  IF Decodes(stream)
          THEN \E f \in [diag -> 1..Len(t)] :
                 /\ \A i \in diag : t[f[i]] = DiagnosticText(stream[i])
                 /\ \A i, j \in diag : i < j => f[i] < f[j]
          ELSE /\ t = NoReplay
               /\ \A i \in diag, k \in 1..Len(t) : t[k] # DiagnosticText(stream[i])

\* a failed build whose stdout holds a rendered and a plain diagnostic
C12_Witness ==
    /\ pc = "returned"
    /\ result.kind = "build"
    /\ stream = <<CompilerMessage("unused variable", "", FALSE),
                  CompilerMessage("unused variable", "warning: unused variable", TRUE)>>
    /\ Transcript(result) = <<"unused variable", "warning: unused variable">>

\* the instrumentation of some artifact of the run failed: BOLT exited non-zero
BoltFailed == \E k \in 1..Len(bolt_calls) : bolt_calls[k].status # 0

\* C13: the process exits with 0 or 1; with 1 exactly when bolt_instrument
\* returned an error, which is then printed; and a run that exits with 0 had no
\* failed cargo build and no failed instrumentation.
C13_ExitCodeTellsFailure ==
    pc = "exited" =>
      /\ exit_code \in {0, 1}
      /\ exit_code = 1 <=> result # Ok
      /\ result # Ok => trace[Len(trace)] = Step("stderr", <<result.kind>>)
      /\ exit_code = 0 => ~CargoFailed /\ ~BoltFailed

\* C14: a record that cannot be decoded ends the run with a decode error at that
\* record: the records handled are the ones before it, none of them undecodable,
\* and what was printed and instrumented is what the records before it gave.
C14_DecodeErrorAborts ==
    /\ CargoSucceeded => Decodes(SubSeq(stream, 1, next - 1))
    /\ result.kind = "decode" =>
          /\ pc \in {"returned", "exited"}
          /\ next <= Len(stream) /\ stream[next].kind = "Undecodable"
          /\ Inputs(bolt_calls) = ExecutablesOf(stream, next - 1)
          /\ LET out == Positions(trace, {"stdout"}) IN
             /\ Cardinality(out) = Len(Rendered(stream, next - 1))
             /\ \A j \in out :
                   trace[j].arg = <<Rendered(stream, next - 1)[Cardinality({i \in out : i <= j})]>>
          /\ pc = "exited" => exit_code = 1

\* the record after the undecodable one is an executable artifact, not instrumented
C14_Witness ==
    /\ pc = "returned"
    /\ result.kind = "decode"
    /\ stream = <<Undecodable, CompilerArtifact("bin", OUT_MYAPP, TRUE)>>
    /\ next = 1
    /\ bolt_calls = <<>>

C15_WitnessUnset ==
    /\ epc = "returned"
    /\ ~env[RUSTFLAGS].set
    /\ child_env.spawned
    /\ child_env.vars[RUSTFLAGS] = Var(<<" ", "-C link-args=-Wl,-q">>)

(***************************************************************************)
(* Properties of instrument_binary.  The expected arguments are computed   *)
(* on the strings: the file name is what follows the last "/", and the     *)
(* name without extension is the file name cut before its last "." unless  *)
(* that "." is its first character.                                        *)
(***************************************************************************)
Max(S) == CHOOSE x \in S : \A y \in S : y <= x
LastSlash(str) == Max({0} \cup {i \in 1..Len(str) : str[i] = SLASH})
FileNameOf(str) == SubSeq(str, LastSlash(str) + 1, Len(str))
DirPrefixOf(str) == SubSeq(str, 1, LastSlash(str))
WithoutExtension(name) ==
    LET dots == {i \in 2..Len(name) : name[i] = DOT} IN
    IF dots = {} THEN name ELSE SubSeq(name, 1, Max(dots) - 1)
BaseNameOf(str) == WithoutExtension(FileNameOf(str))

\* C10: every BOLT process instrument_binary launches for executable P under
\* profile directory D gets the output path parent(P)/<basename>-bolt-instrumented
\* and the profile prefix D/<basename>/profile, basename being the file name of P
\* without its extension, and D/<basename> exists when the process is launched;
\* /out/myapp under /prof gives /out/myapp-bolt-instrumented and /prof/myapp/profile.
C10_BoltPaths ==
    \A k \in 1..Len(bolt_calls) :
      LET c == bolt_calls[k]
          base == BaseNameOf(c.input)
      IN  /\ c.input = as_str(exe)
          /\ c.output = DirPrefixOf(c.input) \o base \o <<BOLT_SUFFIX>>
          /\ c.profile = as_str(bolt_dir) \o <<SLASH>> \o base \o <<SLASH, PROFILE>>
          /\ c.subdir_exists
          /\ disk.exists /\ base \in disk.entries
          /\ (exe = OUT_MYAPP /\ bolt_dir = PROF) =>
                /\ c.output = <<"/", "out", "/", "myapp", "-bolt-instrumented">>
                /\ c.profile = <<"/", "prof", "/", "myapp", "/", "profile">>

C10_Witness ==
    /\ ipc = "returned"
    /\ exe = OUT_MYAPP_EXE
    /\ bolt_dir = PROF
    /\ Len(bolt_calls) = 1
    /\ bolt_calls[1].output = <<"/", "out", "/", "myapp", "-bolt-instrumented">>
    /\ bolt_calls[1].profile = <<"/", "prof", "/", "myapp", "/", "profile">>
    /\ Name("myapp") \in disk.entries

(***************************************************************************)
(* Properties of what a run leaves on disk.                                *)
(***************************************************************************)
InRun == pc \in {"build", "events", "returned"}
PreparedOk ==
    \E j \in 1..Len(trace) :
      \/ trace[j].op = "no_directory"
      \/ trace[j].op = "clear_directory" /\ trace[j].arg[1] = "ok"
BaseNames(calls) == {BaseNameOf(calls[k].input) : k \in 1..Len(calls)}
Finished(n) == {i \in 1..n : stream[i].kind = "BuildFinished"}
Min(S) == CHOOSE x \in S : \A y \in S : x <= y

\* every binary a BOLT process of the run wrote, and the subdirectory of every
\* BOLT process of the run, is on disk
ProducedOnDisk ==
    \A k \in 1..Len(bolt_calls) :
      /\ bolt_calls[k].status = 0 => bolt_calls[k].output \in binaries
      /\ disk.exists /\ BaseNameOf(bolt_calls[k].input) \in disk.entries

\* C16 as stated: once a BuildFinished record has been handled no BOLT process is
\* run for a record after it, and what was produced before it is still on disk
C16_BuildFinishedIsTerminal ==
    (CargoSucceeded /\ Finished(next - 1) # {}) =>
      /\ Inputs(bolt_calls) = ExecutablesOf(stream, Min(Finished(next - 1)))
      /\ ProducedOnDisk

\* C16, amended: handling a BuildFinished record, with either success value,
\* writes one log line and changes nothing on disk, and it ends nothing: the
\* loop goes on to the end of the stream, and an executable artifact that
\* follows a BuildFinished record is instrumented like any other.
C16_BuildFinishedOnlyLogs ==
    /\ []((CargoSucceeded /\ Finished(next - 1) # {}) =>
            /\ result \in {Running, Ok} => Inputs(bolt_calls) = ExecutablesOf(stream, next - 1)
            /\ result = Ok => next = Len(stream) + 1
            /\ pc = "events" => result = Running
            /\ ProducedOnDisk)
    /\ [][(pc = "events" /\ next <= Len(stream) /\ stream[next].kind = "BuildFinished") =>
            /\ disk' = disk /\ binaries' = binaries /\ bolt_calls' = bolt_calls
            /\ pc' = "events" /\ next' = next + 1
            /\ Len(trace') = Len(trace) + 1 /\ trace'[Len(trace')].op = "log"]_vars

\* an executable artifact after BuildFinished: BOLT was run for it
C16_Witness ==
    /\ pc = "returned"
    /\ result = Ok
    /\ stream = <<BuildFinished(TRUE), CompilerArtifact("bin", OUT_MYAPP, TRUE)>>
    /\ Inputs(bolt_calls) = <<as_str(OUT_MYAPP)>>
    /\ <<"/", "out", "/", "myapp", "-bolt-instrumented">> \in binaries

C17_WitnessDistinct ==
    /\ pc = "returned"
    /\ result = Ok
    /\ Inputs(bolt_calls) = <<as_str(OUT_MYAPP), as_str(DEPS_TOOL)>>
    /\ Cardinality(disk.entries) = 2

\* C18: when find_bolt_env fails the run returns that error having done nothing:
\* no step of such a run, from its start to its exit, changes the profile
\* directory or its content, no cargo and no BOLT process is run.
C18_NoBoltNothingTouched ==
    /\ [](result.kind = "find_bolt_env" =>
            /\ pc \in {"returned", "exited"}
            /\ Positions(trace, PrepareOps \cup WorkOps) = {}
            /\ cmd_result = "none" /\ command = <<>>
            /\ stream = <<>> /\ bolt_calls = <<>>
            /\ pc = "exited" => exit_code = 1)
    /\ [][(pc' = "find_bolt_env" \/ (pc = "find_bolt_env" /\ pc' = "returned")
             \/ (pc = "returned" /\ result.kind = "find_bolt_env")) =>
            disk' = disk /\ binaries' = binaries]_vars

\* the directory held files when the lookup failed, and still holds them
C18_Witness ==
    /\ pc = "exited"
    /\ result.kind = "find_bolt_env"
    /\ disk = [exists |-> TRUE, entries |-> {STALE}]
    /\ trace = <<Step("stderr", <<"find_bolt_env">>)>>

\* C19: a run that fails leaves on disk what it made: the step that fails and
\* the exit remove no instrumented binary and no entry of the profile directory,
\* so the binaries and subdirectories of the artifacts handled before the failure
\* are there when the run has returned; and after a failed build a directory
\* that was cleared is still there, empty.
C19_NoRollback ==
    /\ []((pc \in {"returned", "exited"} /\ result # Ok) =>
            /\ pc = "returned" => ProducedOnDisk
            /\ \A k \in 1..Len(bolt_calls) :
                  bolt_calls[k].status = 0 => bolt_calls[k].output \in binaries
            /\ (pc = "returned" /\ result.kind = "build") =>
                  /\ disk.entries = {}
                  /\ trace[1].op = "clear_directory" => disk = [exists |-> TRUE, entries |-> {}])
    /\ [][((pc \in {"build", "events"} /\ pc' = "returned" /\ result' # Ok)
             \/ (pc = "returned" /\ pc' = "exited")) =>
            /\ binaries \subseteq binaries'
            /\ disk.entries \subseteq disk'.entries
            /\ disk.exists => disk'.exists
            /\ pc = "build" => disk' = disk]_vars

\* a decode error after an instrumented artifact: binary and subdirectory remain
C19_Witness ==
    /\ pc = "returned"
    /\ result.kind = "decode"
    /\ stream = <<CompilerArtifact("bin", OUT_MYAPP, TRUE), Undecodable>>
    /\ Len(bolt_calls) = 1 /\ bolt_calls[1].status = 0
    /\ <<"/", "out", "/", "myapp", "-bolt-instrumented">> \in binaries
    /\ disk = [exists |-> TRUE, entries |-> {Name("myapp")}]

\* a failed build after the directory, which held files, was cleared
C19_WitnessBuild ==
    /\ pc = "returned"
    /\ result.kind = "build"
    /\ trace[1] = Step("clear_directory", <<"ok", "files">>)
    /\ disk = [exists |-> TRUE, entries |-> {}]

====
